---- MODULE Spec2Model ----
(***************************************************************************)
(* A model of the pesca-parser front end: the grammar combinator engine    *)
(* (src/parser/combinators.rs), the Id, Expression and WhileLoop rules,    *)
(* and the character-class tokenizer of src/lexer.rs.                      *)
(*                                                                         *)
(* Comb::parse and the rule functions are recursive functions over a       *)
(* mutable token stream; they are modelled as RECURSIVE operators that     *)
(* take the stream and return the outcome together with the stream as the  *)
(* call left it.  A panic (todo!, unreachable!) is a third outcome that    *)
(* unwinds through every caller.                                           *)
(***************************************************************************)
EXTENDS Integers, Sequences, FiniteSets, TLC

VARIABLES
    tokens,     \* the token stream handed to the parser: toks, index, trace
    comb,       \* the matcher of the last Comb::parse call (NoComb before)
    start,      \* stream index when the last call began
    result,     \* outcome of the last call
    pc,         \* "ready" before the call, "done" after it
    input,      \* lex: the source text
    iterator,   \* lex: the characters not yet consumed
    line,       \* lex: line counter
    col,        \* lex: column counter
    lex_tokens, \* lex: the tokens pushed so far
    lex_pc      \* lex: "loop" in the main loop, "ok" / "err" once returned

parser_vars == <<tokens, comb, start, result, pc>>
lexer_vars == <<input, iterator, line, col, lex_tokens, lex_pc>>
vars == <<tokens, comb, start, result, pc, input, iterator, line, col, lex_tokens, lex_pc>>

----------------------------------------------------------------------------
(* Bounds *)

MaxTokens == 3
MaxExprTokens == 5
MaxInput == 4
MaxLexTokens == 5
MaxCol == 6
MaxLine == 3
MaxWhileTokens == 6

----------------------------------------------------------------------------
(* Tokens.  The value and the position of a token are drawn from its place *)
(* in the stream, so that two tokens of a stream never carry the same.     *)

InputKinds == {"Let", "Id", "Num", "Semicolon", "Plus"}

ExprKinds == {"Num", "Id", "Plus", "Times", "Semicolon", "Let"}

WhileKinds == {"While", "LParen", "Num", "RParen", "LBrace", "RBrace"}

MkToken(kind, i) == [kind |-> kind, value |-> i, position |-> <<1, i>>]

TokenPosition(t) == t.position

RECURSIVE SeqsUpTo(_, _)
SeqsUpTo(S, n) ==
    IF n = 0 THEN {<<>>}
    ELSE LET shorter == SeqsUpTo(S, n - 1)
         IN  shorter \cup {Append(q, k) : q \in {r \in shorter : Len(r) = n - 1}, k \in S}

MkToks(kinds) == [i \in 1..Len(kinds) |-> MkToken(kinds[i], i)]

----------------------------------------------------------------------------
(* The token stream: a cursor over an immutable token sequence.  trace is  *)
(* the history of cursor operations, kept to state what a call did while   *)
(* it ran.                                                                 *)

MkStream(toks) == [toks |-> toks, index |-> 0, trace |-> <<>>]

Record(s, op, v) == Append(s.trace, <<op, v>>)

TokensNext(s) ==
    IF s.index < Len(s.toks)
    THEN [tok |-> <<s.toks[s.index + 1]>>,
          s   |-> [s EXCEPT !.index = s.index + 1,
                            !.trace = Record(s, "next", s.index + 1)]]
    ELSE [tok |-> <<>>, s |-> [s EXCEPT !.trace = Record(s, "next", s.index)]]

TokensPeek(s) ==
    IF s.index < Len(s.toks) THEN <<s.toks[s.index + 1]>> ELSE <<>>

GetIndex(s) == [index |-> s.index, s |-> [s EXCEPT !.trace = Record(s, "get", s.index)]]

SetIndex(s, i) == [s EXCEPT !.index = i, !.trace = Record(s, "set", i)]

----------------------------------------------------------------------------
(* Outcomes *)

None == <<>>
Some(x) == <<x>>

ParseError(message, found, expected, position) ==
    [message |-> message, found |-> found, expected |-> expected, position |-> position]

ParseErrorEof(item) == ParseError("hit EOF while parsing", None, item, None)

Ok(nodes, s) == [kind |-> "ok", nodes |-> nodes, err |-> None, s |-> s]
Err(e, s) == [kind |-> "err", nodes |-> <<>>, err |-> Some(e), s |-> s]
Panic(why, s) == [kind |-> "panic", nodes |-> <<>>, err |-> Some(ParseError(why, None, "", None)), s |-> s]

----------------------------------------------------------------------------
(* AST nodes are tagged tuples: <<"Id", v>>, <<"Num", v>>,                 *)
(* <<"Addition", l, r>>, <<"Multiplication", l, r>>, and                   *)
(* <<"Expression", e>> for AstNode::Expression(e).                         *)

AstId(v) == <<"Id", v>>
AstNum(v) == <<"Num", v>>
AstExpression(e) == <<"Expression", e>>
AstInitialization(id, value) == <<"Initialization", id, value>>
AstBlock(statements) == <<"Block", statements>>
AstWhileLoop(condition, block) == <<"WhileLoop", condition, block>>

----------------------------------------------------------------------------
(* Combinator values *)

Terminal(token) == [tag |-> "Terminal", arg |-> token, kids |-> <<>>]
Node(parser) == [tag |-> "Node", arg |-> parser, kids |-> <<>>]
Sequence(current, next) == [tag |-> "Sequence", arg |-> "", kids |-> <<current, next>>]
Either(left, right) == [tag |-> "Either", arg |-> "", kids |-> <<left, right>>]
Optional(inner) == [tag |-> "Optional", arg |-> "", kids |-> <<inner>>]

CombID == Node("Id")
CombNUM == Node("Num")
CombEXPR == Node("Expression")
CombLET == Terminal("Let")
CombEQ == Terminal("Eq")
CombSEMI == Terminal("Semicolon")

\* The matchers WhileLoop::parse and Block name; the combinators.rs at hand
\* does not declare them.
CombWHILE_KEYWORD == Terminal("While")
CombLPAREN == Terminal("LParen")
CombRPAREN == Terminal("RParen")
CombLBRACE == Terminal("LBrace")
CombRBRACE == Terminal("RBrace")
CombBLOCK == Node("Block")

LaterTerminals == {"While", "LParen", "RParen", "LBrace", "RBrace"}

TerminalEq(terminal, t) ==
    \/ terminal = "Eq" /\ t.kind = "Eq"
    \/ terminal = "Let" /\ t.kind = "Let"
    \/ terminal = "Semicolon" /\ t.kind = "Semicolon"
    \/ terminal \in LaterTerminals /\ t.kind = terminal

----------------------------------------------------------------------------
(* Rule functions *)

\* Id::parse with the stream's next token unwrapped instead of matched on.
IdParseUnwrap(s) ==
    LET n == TokensNext(s)
    IN  IF n.tok = None THEN Panic("called unwrap on a None value", n.s)
        ELSE LET token == n.tok[1]
             IN  IF token.kind = "Id" THEN Ok(<<AstId(token.value)>>, n.s)
                 ELSE Err(ParseError("Tried to parse Id from non id token", None, "",
                                     Some(TokenPosition(token))), n.s)

IdParse(s) ==
    LET n == TokensNext(s)
    IN  IF n.tok = None THEN Err(ParseErrorEof("Id"), n.s)
        ELSE LET token == n.tok[1]
             IN  IF token.kind = "Id" THEN Ok(<<AstId(token.value)>>, n.s)
                 ELSE Err(ParseError("Tried to parse Id from non id token", None, "",
                                     Some(TokenPosition(token))), n.s)

NumParse(s) ==
    LET n == TokensNext(s)
    IN  IF n.tok = None THEN Err(ParseErrorEof("Num"), n.s)
        ELSE LET token == n.tok[1]
             IN  IF token.kind = "Num" THEN Ok(<<AstNum(token.value)>>, n.s)
                 ELSE Err(ParseError("Tried to parse Num from non num token", None, "",
                                     Some(TokenPosition(token))), n.s)

RECURSIVE CombParse(_, _)
RECURSIVE ExpressionParse(_)

\* Terminal that peeks and consumes the token only when it matches.
ParseTerminalPeek(token, s) ==
    LET p == TokensPeek(s)
    IN  IF p = None THEN Err(ParseError("Reached EOF!", None, "", None), s)
        ELSE IF ~TerminalEq(token, p[1])
             THEN Err(ParseError("Unexpected token while trying to parse", p, token, None), s)
             ELSE Ok(<<>>, TokensNext(s).s)

ParseTerminal(token, s) ==
    LET n == TokensNext(s)
    IN  IF n.tok = None THEN Err(ParseError("Reached EOF!", None, "", None), n.s)
        ELSE IF ~TerminalEq(token, n.tok[1])
             THEN Err(ParseError("Unexpected token while trying to parse", n.tok, token, None), n.s)
             ELSE Ok(<<>>, n.s)

\* Sequence that puts the cursor back where it began when its second child fails.
ParseSequenceRestoring(current, next, s) ==
    LET c == CombParse(current, s)
    IN  IF c.kind # "ok" THEN c
        ELSE LET n == CombParse(next, c.s)
             IN  IF n.kind = "err" THEN [n EXCEPT !.s = SetIndex(n.s, s.index)]
                 ELSE IF n.kind # "ok" THEN n
                 ELSE Ok(c.nodes \o n.nodes, n.s)

\* Sequence that puts the nodes of its second child before those of its first.
ParseSequenceReversed(current, next, s) ==
    LET c == CombParse(current, s)
    IN  IF c.kind # "ok" THEN c
        ELSE LET n == CombParse(next, c.s)
             IN  IF n.kind # "ok" THEN n
                 ELSE Ok(n.nodes \o c.nodes, n.s)

ParseSequence(current, next, s) ==
    LET c == CombParse(current, s)
    IN  IF c.kind # "ok" THEN c
        ELSE LET n == CombParse(next, c.s)
             IN  IF n.kind # "ok" THEN n
                 ELSE Ok(c.nodes \o n.nodes, n.s)

\* Either that runs its right branch from where the left branch stopped.
ParseEitherNoRestore(left, right, s) ==
    LET g == GetIndex(s)
        l == CombParse(left, g.s)
    IN  IF l.kind = "ok" THEN l
        ELSE IF l.kind = "panic" THEN l
        ELSE CombParse(right, l.s)

ParseEither(left, right, s) ==
    LET g == GetIndex(s)
        l == CombParse(left, g.s)
    IN  IF l.kind = "ok" THEN l
        ELSE IF l.kind = "panic" THEN l
        ELSE CombParse(right, SetIndex(l.s, g.index))

\* Initialization: `let` Identifier `=` Expression `;`
InitializationMatcher ==
    Sequence(Sequence(Sequence(Sequence(CombLET, CombID), CombEQ), CombEXPR), CombSEMI)

InitializationParse(s) ==
    LET r == CombParse(InitializationMatcher, s)
    IN  IF r.kind # "ok" THEN r
        ELSE IF Len(r.nodes) # 2 \/ r.nodes[1][1] # "Id" \/ r.nodes[2][1] # "Expression"
             THEN Panic("unreachable", r.s)
        ELSE Ok(<<AstInitialization(r.nodes[1], r.nodes[2][2])>>, r.s)

\* Block: `{`, statements until `}`; the rule function itself repeats.
RECURSIVE BlockStatements(_, _)
BlockStatements(statements, s) ==
    LET next == TokensPeek(s)
    IN  IF next = None THEN Err(ParseErrorEof("Block"), s)
        ELSE IF next[1].kind = "RBrace" THEN Ok(<<AstBlock(statements)>>, TokensNext(s).s)
        ELSE LET r == InitializationParse(s)
             IN  IF r.kind # "ok" THEN r
                 ELSE BlockStatements(Append(statements, r.nodes[1]), r.s)

BlockParse(s) ==
    LET l == CombParse(CombLBRACE, s)
    IN  IF l.kind # "ok" THEN l ELSE BlockStatements(<<>>, l.s)

RuleParse(parser, s) ==
    CASE parser = "Id" -> IdParse(s)
      [] parser = "Num" -> NumParse(s)
      [] parser = "Expression" -> ExpressionParse(s)
      [] parser = "Block" -> BlockParse(s)

ParseNode(parser, s) == RuleParse(parser, s)

\* Optional that leaves the cursor where its inner combinator failed.
ParseOptionalNoRestore(inner, s) ==
    LET g == GetIndex(s)
        r == CombParse(inner, g.s)
    IN  IF r.kind = "ok" THEN r
        ELSE IF r.kind = "panic" THEN r
        ELSE Ok(<<>>, r.s)

\* Optional that restores the cursor one past the index it saved.
ParseOptionalOffByOne(inner, s) ==
    LET g == GetIndex(s)
        r == CombParse(inner, g.s)
    IN  IF r.kind = "ok" THEN r
        ELSE IF r.kind = "panic" THEN r
        ELSE Ok(<<>>, SetIndex(r.s, g.index + 1))

ParseOptional(inner, s) ==
    LET g == GetIndex(s)
        r == CombParse(inner, g.s)
    IN  IF r.kind = "ok" THEN r
        ELSE IF r.kind = "panic" THEN r
        ELSE Ok(<<>>, SetIndex(r.s, g.index))

CombParse(c, s) ==
    CASE c.tag = "Terminal" -> ParseTerminal(c.arg, s)
      [] c.tag = "Sequence" -> ParseSequence(c.kids[1], c.kids[2], s)
      [] c.tag = "Either" -> ParseEither(c.kids[1], c.kids[2], s)
      [] c.tag = "Node" -> ParseNode(c.arg, s)
      [] c.tag = "Optional" -> ParseOptional(c.kids[1], s)

\* Expression::parse that takes a single operand, not a whole Expression, as
\* the right-hand side.
ExpressionParseOperandRhs(s) ==
    LET r == CombParse(Either(CombNUM, CombID), s)
    IN  IF r.kind # "ok" THEN r
        ELSE IF r.nodes = <<>> \/ r.nodes[1][1] \notin {"Id", "Num"}
             THEN Panic("unreachable", r.s)
        ELSE LET expr == r.nodes[1]
                 next == TokensPeek(r.s)
             IN  IF next = None THEN Ok(<<AstExpression(expr)>>, r.s)
                 ELSE IF next[1].kind = "Semicolon" THEN Ok(<<AstExpression(expr)>>, r.s)
                 ELSE IF next[1].kind \notin {"Times", "Plus"} THEN Panic("todo", r.s)
                 ELSE LET tuple == IF next[1].kind = "Times" THEN "Multiplication" ELSE "Addition"
                          rr == CombParse(Either(CombNUM, CombID), TokensNext(r.s).s)
                      IN  IF rr.kind # "ok" THEN rr
                          ELSE Ok(<<AstExpression(<<tuple, expr, rr.nodes[1]>>)>>, rr.s)

ExpressionParse(s) ==
    LET r == CombParse(Either(CombNUM, CombID), s)
    IN  IF r.kind # "ok" THEN r
        ELSE IF r.nodes = <<>> \/ r.nodes[1][1] \notin {"Id", "Num"}
             THEN Panic("unreachable", r.s)
        ELSE LET expr == r.nodes[1]
                 next == TokensPeek(r.s)
             IN  IF next = None THEN Ok(<<AstExpression(expr)>>, r.s)
                 ELSE IF next[1].kind = "Semicolon" THEN Ok(<<AstExpression(expr)>>, r.s)
                 ELSE IF next[1].kind \notin {"Times", "Plus"} THEN Panic("todo", r.s)
                 ELSE LET tuple == IF next[1].kind = "Times" THEN "Multiplication" ELSE "Addition"
                          rr == CombParse(CombEXPR, TokensNext(r.s).s)
                      IN  IF rr.kind # "ok" THEN rr
                          ELSE IF rr.nodes = <<>> \/ rr.nodes[1][1] # "Expression"
                               THEN Panic("unreachable", rr.s)
                          ELSE Ok(<<AstExpression(<<tuple, expr, rr.nodes[1][2]>>)>>, rr.s)

WhileMatcher ==
    Sequence(Sequence(Sequence(Sequence(CombWHILE_KEYWORD, CombLPAREN), CombEXPR),
                      CombRPAREN), CombBLOCK)

WhileLoopParse(s) ==
    LET r == CombParse(WhileMatcher, s)
    IN  IF r.kind # "ok" THEN r
        ELSE IF r.nodes = <<>> \/ r.nodes[1][1] # "Expression"
             THEN Panic("unreachable", r.s)
        ELSE IF Len(r.nodes) < 2 \/ r.nodes[2][1] # "Block"
             THEN Panic("unreachable", r.s)
        ELSE Ok(<<AstWhileLoop(r.nodes[1][2], r.nodes[2][2])>>, r.s)

----------------------------------------------------------------------------
(* The matchers tried: the leaves, every combinator over two leaves, every  *)
(* combinator with one such combinator and one leaf below it, and the two  *)
(* remaining terminals on their own.                                       *)

Leaves == {CombLET, CombNUM, CombID, CombEXPR}

Binary(A, B) == {Sequence(a, b) : a \in A, b \in B} \cup {Either(a, b) : a \in A, b \in B}

Combs1 == Leaves \cup Binary(Leaves, Leaves) \cup {Optional(a) : a \in Leaves}

Combs == Combs1 \cup Binary(Combs1, Leaves) \cup Binary(Leaves, Combs1)
               \cup {Optional(a) : a \in Combs1}
               \cup {CombEQ, CombSEMI}

NoComb == [tag |-> "None", arg |-> "", kids |-> <<>>]

NoResult == [kind |-> "none", nodes |-> <<>>, err |-> None, s |-> MkStream(<<>>)]

LexIdle ==
    /\ input = <<>>
    /\ iterator = <<>>
    /\ line = 1
    /\ col = 1
    /\ lex_tokens = <<>>
    /\ lex_pc = "idle"

----------------------------------------------------------------------------
(* The parser's state machine: a caller positions a stream, then runs one  *)
(* matcher on it.                                                          *)

Init ==
    /\ tokens \in {MkStream(MkToks(k)) : k \in SeqsUpTo(InputKinds, MaxTokens)}
    /\ comb = NoComb
    /\ start = 0
    /\ result = NoResult
    /\ pc = "ready"
    /\ LexIdle

Advance ==
    /\ pc = "ready"
    /\ tokens.index < Len(tokens.toks)
    /\ tokens' = TokensNext(tokens).s
    /\ UNCHANGED <<comb, start, result, pc>>
    /\ UNCHANGED lexer_vars

Parse ==
    /\ pc = "ready"
    /\ \E c \in Combs :
        /\ comb' = c
        /\ start' = tokens.index
        /\ result' = CombParse(c, tokens)
        /\ tokens' = result'.s
    /\ pc' = "done"
    /\ UNCHANGED lexer_vars

Next == Advance \/ Parse

Spec == Init /\ [][Next]_vars

----------------------------------------------------------------------------
(* The Expression rule called directly, as its tests call it.              *)

ExprInit ==
    /\ tokens \in {MkStream(MkToks(k)) : k \in SeqsUpTo(ExprKinds, MaxExprTokens)}
    /\ comb = NoComb
    /\ start = 0
    /\ result = NoResult
    /\ pc = "ready"
    /\ LexIdle

ParseExpression ==
    /\ pc = "ready"
    /\ start' = tokens.index
    /\ result' = ExpressionParse(tokens)
    /\ tokens' = result'.s
    /\ pc' = "done"
    /\ UNCHANGED comb
    /\ UNCHANGED lexer_vars

ExprNext == Advance \/ ParseExpression

ExprSpec == ExprInit /\ [][ExprNext]_vars

----------------------------------------------------------------------------
(* The WhileLoop rule called directly, and its matcher run as a matcher.   *)
(* WhileMatchers holds the matcher of WhileLoop::parse, each shorter       *)
(* sequence it is built from, the same with the integer literal in place   *)
(* of the expression, and the latter joined from the right.                *)

NumWhileMatcher ==
    Sequence(Sequence(Sequence(Sequence(CombWHILE_KEYWORD, CombLPAREN), CombNUM),
                      CombRPAREN), CombBLOCK)

RightJoinedMatcher ==
    Sequence(CombWHILE_KEYWORD,
             Sequence(CombLPAREN, Sequence(CombNUM, Sequence(CombRPAREN, CombBLOCK))))

RECURSIVE SequencePrefixes(_)
SequencePrefixes(c) ==
    IF c.tag = "Sequence" THEN {c} \cup SequencePrefixes(c.kids[1]) ELSE {c}

WhileMatchers ==
    SequencePrefixes(WhileMatcher) \cup SequencePrefixes(NumWhileMatcher)
        \cup {RightJoinedMatcher}

WhileInit ==
    /\ tokens \in {MkStream(MkToks(k)) : k \in SeqsUpTo(WhileKinds, MaxWhileTokens)}
    /\ comb = NoComb
    /\ start = 0
    /\ result = NoResult
    /\ pc = "ready"
    /\ LexIdle

ParseWhileLoop ==
    /\ pc = "ready"
    /\ start' = tokens.index
    /\ result' = WhileLoopParse(tokens)
    /\ tokens' = result'.s
    /\ pc' = "done"
    /\ UNCHANGED comb
    /\ UNCHANGED lexer_vars

ParseMatcher ==
    /\ pc = "ready"
    /\ \E c \in WhileMatchers :
        /\ comb' = c
        /\ start' = tokens.index
        /\ result' = CombParse(c, tokens)
        /\ tokens' = result'.s
    /\ pc' = "done"
    /\ UNCHANGED lexer_vars

WhileNext == ParseWhileLoop \/ ParseMatcher

WhileSpec == WhileInit /\ [][WhileNext]_vars

----------------------------------------------------------------------------
(* The tokenizer of src/lexer.rs.  A character is a one-character string;  *)
(* "eacute" stands for an alphabetic character outside ASCII and "half"    *)
(* for a numeric character that is no decimal digit.                       *)

AsciiLetters == {"l", "e", "t", "x"}
Alphabetic == AsciiLetters \cup {"eacute"}
AsciiDigits == {"0", "7"}
Numeric == AsciiDigits \cup {"half"}
Chars == Alphabetic \cup Numeric \cup {"=", ";", "/", " ", "\n", "#"}

InputChars == {"l", "e", "t", "eacute", "7", "half", "=", ";", "/", " ", "\n", "#"}

LexToken(kind, value, position) == [kind |-> kind, value |-> value, position |-> position]

LexError(message) == message

\* while let Some(next) = iterator.next_if(|item| item in class) { read.push(next) }
RECURSIVE NextIfLoop(_, _, _)
NextIfLoop(it, read, class) ==
    IF it # <<>> /\ Head(it) \in class
    THEN NextIfLoop(Tail(it), Append(read, Head(it)), class)
    ELSE [read |-> read, iterator |-> it]

DigitValue(c) == IF c = "7" THEN 7 ELSE 0

RECURSIVE DecimalValue(_, _)
DecimalValue(read, acc) ==
    IF read = <<>> THEN acc
    ELSE DecimalValue(Tail(read), acc * 10 + DigitValue(Head(read)))

\* str::parse::<u64>: an empty string or a character that is no decimal digit
\* is an error.  A value of up to 19 digits fits in a u64; the inputs of the
\* model are far shorter, so overflow does not arise in it.
ParseU64(read) ==
    IF read = <<>> \/ \E i \in 1..Len(read) : read[i] \notin AsciiDigits THEN None
    ELSE Some(DecimalValue(read, 0))

lex_comment(it, l, c) ==
    LET position == <<l, c>>
        c1 == c + 1
    IN  IF it = <<>> \/ Head(it) # "/"
        THEN [err |-> Some(LexError("Comment without second slash!")), token |-> None,
              iterator |-> IF it = <<>> THEN it ELSE Tail(it), line |-> l, col |-> c1]
        ELSE IF Tail(it) = <<>> \/ Head(Tail(it)) # "/"
        THEN [err |-> Some(LexError("Comment without second slash!")), token |-> None,
              iterator |-> IF Tail(it) = <<>> THEN <<>> ELSE Tail(Tail(it)),
              line |-> l, col |-> c1]
        ELSE LET r == NextIfLoop(Tail(Tail(it)), <<>>, Chars \ {"\n"})
             IN  [err |-> None, token |-> Some(LexToken("Comment", r.read, position)),
                  iterator |-> r.iterator, line |-> l, col |-> c1 + Len(r.read)]

\* lex_alphabetic that returns the keyword as soon as it has read it.
lex_alphabetic_keyword_first(it, l, c) ==
    LET position == <<l, c>>
        r == NextIfLoop(it, <<>>, Alphabetic)
    IN  IF Len(r.read) >= 3 /\ SubSeq(r.read, 1, 3) = <<"l", "e", "t">>
        THEN [token |-> LexToken("Let", <<>>, position),
              iterator |-> SubSeq(it, 4, Len(it)), line |-> l, col |-> c + 3]
        ELSE [token |-> LexToken("Id", r.read, position),
              iterator |-> r.iterator, line |-> l, col |-> c + Len(r.read)]

lex_alphabetic(it, l, c) ==
    LET position == <<l, c>>
        r == NextIfLoop(it, <<>>, Alphabetic)
    IN  [token |-> IF r.read = <<"l", "e", "t">>
                   THEN LexToken("Let", <<>>, position)
                   ELSE LexToken("Id", r.read, position),
         iterator |-> r.iterator, line |-> l, col |-> c + Len(r.read)]

lex_numeric(it, l, c) ==
    LET position == <<l, c>>
        r == NextIfLoop(it, <<>>, Numeric)
        num == ParseU64(r.read)
    IN  [err |-> IF num = None THEN Some(LexError("failed to parse numeric")) ELSE None,
         token |-> IF num = None THEN None ELSE Some(LexToken("Num", num[1], position)),
         iterator |-> r.iterator, line |-> l, col |-> c + 1 + Len(r.read)]

ParserIdle ==
    /\ tokens = MkStream(<<>>)
    /\ comb = NoComb
    /\ start = 0
    /\ result = NoResult
    /\ pc = "idle"

LexInit ==
    /\ input \in SeqsUpTo(InputChars, MaxInput)
    /\ iterator = input
    /\ line = 1
    /\ col = 1
    /\ lex_tokens = <<>>
    /\ lex_pc = "loop"
    /\ ParserIdle

\* while let Some(next) = iterator.peek()
InLoop(class) ==
    /\ lex_pc = "loop"
    /\ iterator # <<>>
    /\ Head(iterator) \in class

LexEq ==
    /\ InLoop({"="})
    /\ Len(lex_tokens) < MaxLexTokens
    /\ lex_tokens' = Append(lex_tokens, LexToken("Eq", <<>>, <<line, col>>))
    /\ UNCHANGED <<input, iterator, line, col, lex_pc>>
    /\ UNCHANGED parser_vars

LexSemicolon ==
    /\ InLoop({";"})
    /\ Len(lex_tokens) < MaxLexTokens
    /\ lex_tokens' = Append(lex_tokens, LexToken("Semicolon", <<>>, <<line, col>>))
    /\ UNCHANGED <<input, iterator, line, col, lex_pc>>
    /\ UNCHANGED parser_vars

LexComment ==
    /\ InLoop({"/"})
    /\ LET r == lex_comment(iterator, line, col)
       IN  /\ iterator' = r.iterator
           /\ line' = r.line
           /\ col' = r.col
           /\ IF r.err # None
              THEN lex_pc' = "err" /\ UNCHANGED lex_tokens
              ELSE lex_tokens' = Append(lex_tokens, r.token[1]) /\ UNCHANGED lex_pc
    /\ UNCHANGED input
    /\ UNCHANGED parser_vars

LexAlphabetic ==
    /\ InLoop(AsciiLetters)
    /\ LET r == lex_alphabetic(iterator, line, col)
       IN  /\ iterator' = r.iterator
           /\ line' = r.line
           /\ col' = r.col
           /\ lex_tokens' = Append(lex_tokens, r.token)
    /\ UNCHANGED <<input, lex_pc>>
    /\ UNCHANGED parser_vars

LexNumeric ==
    /\ InLoop(AsciiDigits)
    /\ LET r == lex_numeric(iterator, line, col)
       IN  /\ iterator' = r.iterator
           /\ line' = r.line
           /\ col' = r.col
           /\ IF r.err # None
              THEN lex_pc' = "err" /\ UNCHANGED lex_tokens
              ELSE lex_tokens' = Append(lex_tokens, r.token[1]) /\ UNCHANGED lex_pc
    /\ UNCHANGED input
    /\ UNCHANGED parser_vars

LexSpace ==
    /\ InLoop({" "})
    /\ col < MaxCol
    /\ col' = col + 1
    /\ UNCHANGED <<input, iterator, line, lex_tokens, lex_pc>>
    /\ UNCHANGED parser_vars

LexNewline ==
    /\ InLoop({"\n"})
    /\ line < MaxLine
    /\ line' = line + 1
    /\ col' = 1
    /\ UNCHANGED <<input, iterator, lex_tokens, lex_pc>>
    /\ UNCHANGED parser_vars

\* _ => continue
LexOther ==
    /\ InLoop(Chars \ (AsciiLetters \cup AsciiDigits \cup {"=", ";", "/", " ", "\n"}))
    /\ UNCHANGED lexer_vars
    /\ UNCHANGED parser_vars

\* the loop ends when peek() is None: Ok(tokens)
LexReturn ==
    /\ lex_pc = "loop"
    /\ iterator = <<>>
    /\ lex_pc' = "ok"
    /\ UNCHANGED <<input, iterator, line, col, lex_tokens>>
    /\ UNCHANGED parser_vars

LexNext ==
    \/ LexEq
    \/ LexSemicolon
    \/ LexComment
    \/ LexAlphabetic
    \/ LexNumeric
    \/ LexSpace
    \/ LexNewline
    \/ LexOther
    \/ LexReturn

LexSpec == LexInit /\ [][LexNext]_vars

----------------------------------------------------------------------------
(* What the claims speak of.  Fresh(i) is the stream of the last call,     *)
(* positioned at index i, before any call ran on it.                       *)

Fresh(i) == [toks |-> tokens.toks, index |-> i, trace |-> <<>>]

Done == pc = "done"

SameOutcome(a, b) ==
    /\ a.kind = b.kind
    /\ a.err = b.err
    /\ a.nodes = b.nodes
    /\ a.s.index = b.s.index

LeftRun == CombParse(comb.kids[1], Fresh(start))

EitherLeftFailedAfterAdvancing ==
    /\ Done
    /\ comb.tag = "Either"
    /\ LeftRun.kind = "err"
    /\ LeftRun.s.index > start

\* The cursor operations of the last call: the caller's own (one next per
\* token skipped before the call) come first in the trace.
CallTrace == SubSeq(tokens.trace, start + 1, Len(tokens.trace))

\* C1: when the left branch of an Either returns an error after advancing the
\* stream by k > 0 tokens, the cursor is set back to the index the Either
\* began at before the right branch runs, and the Either's outcome and final
\* index are those of the right branch run from that index.
C1_EitherRollback ==
    EitherLeftFailedAfterAdvancing =>
        LET leftOps == LeftRun.s.trace
            rightRun == CombParse(comb.kids[2], Fresh(start))
        IN  /\ CallTrace = <<<<"get", start>>>> \o leftOps \o <<<<"set", start>>>>
                              \o rightRun.s.trace
            /\ SameOutcome(result, rightRun)
            /\ tokens.index = rightRun.s.index

\* C1 witness: the left branch, a sequence, failed two tokens in, the right
\* branch succeeded, and the final index differs from the one the right branch
\* would have left when started where the left branch stopped.
C1_Witness ==
    /\ EitherLeftFailedAfterAdvancing
    /\ comb.kids[1].tag = "Sequence"
    /\ LeftRun.s.index = start + 2
    /\ result.kind = "ok"
    /\ tokens.index # CombParse(comb.kids[2], Fresh(LeftRun.s.index)).s.index

InnerRun == CombParse(comb.kids[1], Fresh(start))

\* C2: when the inner combinator of an Optional returns an error, the
\* Optional returns success with no nodes and the index it began at; an
\* Optional never returns an error.
C2_OptionalOnFailure ==
    (Done /\ comb.tag = "Optional") =>
        /\ result.kind # "err"
        /\ InnerRun.kind = "err" =>
            /\ result.kind = "ok"
            /\ result.nodes = <<>>
            /\ tokens.index = start

\* C2 witness: the inner combinator consumed two tokens before failing.
C2_Witness ==
    /\ Done
    /\ comb.tag = "Optional"
    /\ InnerRun.kind = "err"
    /\ InnerRun.s.index = start + 2
    /\ result.kind = "ok"
    /\ tokens.index = start

FirstRun == CombParse(comb.kids[1], Fresh(start))
SecondRun == CombParse(comb.kids[2], Fresh(FirstRun.s.index))

SequenceSecondFailed ==
    /\ Done
    /\ comb.tag = "Sequence"
    /\ FirstRun.kind = "ok"
    /\ SecondRun.kind = "err"

\* C3: when the first child of a Sequence succeeds and the second returns an
\* error, the Sequence returns that error, with no nodes, and leaves the index
\* where the second child left it.
C3_SequenceNonRollback ==
    SequenceSecondFailed =>
        /\ result.kind = "err"
        /\ result.err = SecondRun.err
        /\ result.nodes = <<>>
        /\ tokens.index = SecondRun.s.index

\* C3 witness: the first child produced a node and consumed a token, the
\* second failed after consuming another, and the index stays past both.
C3_Witness ==
    /\ SequenceSecondFailed
    /\ FirstRun.nodes # <<>>
    /\ tokens.index = start + 2
    /\ result.nodes = <<>>

\* C4: a Terminal run on a stream that is not exhausted leaves the index one
\* further, whether the token matches or not; it returns success with no
\* nodes on a match and an error on a mismatch.
C4_TerminalConsumption ==
    (Done /\ comb.tag = "Terminal" /\ start < Len(tokens.toks)) =>
        /\ tokens.index = start + 1
        /\ IF TerminalEq(comb.arg, tokens.toks[start + 1])
           THEN result.kind = "ok" /\ result.nodes = <<>>
           ELSE result.kind = "err"

\* C4 witness: a Terminal met a token of another kind in mid-stream.
C4_Witness ==
    /\ Done
    /\ comb.tag = "Terminal"
    /\ start > 0
    /\ start < Len(tokens.toks)
    /\ ~TerminalEq(comb.arg, tokens.toks[start + 1])
    /\ result.kind = "err"
    /\ tokens.index = start + 1

IsEofError(e) ==
    /\ e.message \in {"Reached EOF!", "hit EOF while parsing"}
    /\ e.position = None

\* C5: a Terminal or a Node rule run on an empty or exhausted stream returns
\* an end-of-input error; it does not panic.
C5_EofHandling ==
    (Done /\ comb.tag \in {"Terminal", "Node"} /\ start = Len(tokens.toks)) =>
        /\ result.kind = "err"
        /\ IsEofError(result.err[1])

\* C5 witness: the Expression rule was run on an exhausted, non-empty stream.
C5_Witness ==
    /\ Done
    /\ comb = CombEXPR
    /\ start = Len(tokens.toks)
    /\ start > 0
    /\ result.kind = "err"

InRange(i) == 0 <= i /\ i <= Len(tokens.toks)

\* C8: every cursor operation leaves the index within 0..n, and every
\* set_index restores a value an earlier get_index returned.
C8_CursorInvariant ==
    /\ InRange(tokens.index)
    /\ \A j \in 1..Len(tokens.trace) :
        /\ InRange(tokens.trace[j][2])
        /\ tokens.trace[j][1] = "set" =>
            \E k \in 1..(j - 1) :
                tokens.trace[k] = <<"get", tokens.trace[j][2]>>

\* C8 witness: a nested matcher restored the cursor twice on a stream of
\* three tokens that was not at its start.
C8_Witness ==
    /\ Done
    /\ start > 0
    /\ Len(tokens.toks) = 3
    /\ Cardinality({j \in 1..Len(tokens.trace) : tokens.trace[j][1] = "set"}) >= 2

----------------------------------------------------------------------------
(* The Expression rule *)

IsOperand(t) == t.kind \in {"Num", "Id"}
IsOperator(t) == t.kind \in {"Times", "Plus"}

Operand(t) == IF t.kind = "Num" THEN AstNum(t.value) ELSE AstId(t.value)
Operator(t) == IF t.kind = "Times" THEN "Multiplication" ELSE "Addition"

\* toks[i..] is o1 op1 o2 ... on, ending at the end of the stream or at a `;`.
RECURSIVE IsChain(_, _)
IsChain(toks, i) ==
    /\ i <= Len(toks)
    /\ IsOperand(toks[i])
    /\ \/ i = Len(toks)
       \/ toks[i + 1].kind = "Semicolon"
       \/ IsOperator(toks[i + 1]) /\ IsChain(toks, i + 2)

\* The index of the last operand of the chain that begins at toks[i].
RECURSIVE ChainEnd(_, _)
ChainEnd(toks, i) ==
    IF i < Len(toks) /\ IsOperator(toks[i + 1]) THEN ChainEnd(toks, i + 2) ELSE i

\* op1(o1, op2(o2, ... on)) for the chain toks[i..j].
RECURSIVE RightNested(_, _, _)
RightNested(toks, i, j) ==
    IF i = j THEN Operand(toks[i])
    ELSE <<Operator(toks[i + 1]), Operand(toks[i]), RightNested(toks, i + 2, j)>>

\* C6: on a chain o1 op1 o2 ... on the Expression rule returns the fully
\* right-nested tree, + and * alike, and leaves the stream past on.
C6_ExpressionAssociativity ==
    (Done /\ IsChain(tokens.toks, start + 1)) =>
        /\ result.kind = "ok"
        /\ result.nodes =
             <<AstExpression(RightNested(tokens.toks, start + 1,
                                         ChainEnd(tokens.toks, start + 1)))>>
        /\ tokens.index = ChainEnd(tokens.toks, start + 1)

\* C6 witness: 1 * 2 + 3 gave Multiplication(1, Addition(2, 3)).
C6_Witness ==
    /\ Done
    /\ start = 0
    /\ [i \in 1..Len(tokens.toks) |-> tokens.toks[i].kind]
         = <<"Num", "Times", "Num", "Plus", "Num">>
    /\ result.nodes = <<AstExpression(<<"Multiplication", AstNum(1),
                                        <<"Addition", AstNum(3), AstNum(5)>>>>)>>

LeftOperand == CombParse(Either(CombNUM, CombID), Fresh(start))

UnhandledNext ==
    /\ Done
    /\ LeftOperand.kind = "ok"
    /\ TokensPeek(LeftOperand.s) # None
    /\ TokensPeek(LeftOperand.s)[1].kind \notin {"Semicolon", "Times", "Plus"}

\* C7: when the token after the left operand is none of `;`, `*`, `+`, the
\* Expression rule returns a ParseError to its caller.
C7_UnhandledConstructIsError ==
    UnhandledNext => result.kind = "err"

----------------------------------------------------------------------------
(* The tokenizer *)

\* C9: each iteration of the main loop of lex consumes at least one input
\* character.
C9_EachIterationConsumes ==
    [][(lex_pc = "loop" /\ iterator # <<>>) => Len(iterator') < Len(iterator)]_vars

Consumed == Len(input) - Len(iterator)

\* The length of the longest prefix of s made of alphabetic characters.
AlphabeticRunLen(s) ==
    CHOOSE n \in 0..Len(s) :
        /\ \A i \in 1..n : s[i] \in Alphabetic
        /\ n = Len(s) \/ s[n + 1] \notin Alphabetic

AtLetter == lex_pc = "loop" /\ iterator # <<>> /\ Head(iterator) \in AsciiLetters

----------------------------------------------------------------------------
(* The WhileLoop rule *)

WhileLoopCalled == Done /\ comb = NoComb

\* toks is `while` `(` E `)` B with `)` at place j, where Expression parses
\* the whole of E and Block the whole of B.
IsWhileForm(toks, j) ==
    /\ 3 < j /\ j < Len(toks)
    /\ toks[1].kind = "While"
    /\ toks[2].kind = "LParen"
    /\ toks[j].kind = "RParen"
    /\ LET e == ExpressionParse(MkStream(SubSeq(toks, 3, j - 1)))
           b == BlockParse(MkStream(SubSeq(toks, j + 1, Len(toks))))
       IN  /\ e.kind = "ok" /\ e.s.index = j - 3
           /\ b.kind = "ok" /\ b.s.index = Len(toks) - j

\* C11: on `while` `(` E `)` B the WhileLoop rule succeeds with the expression
\* of E as the condition and the block of B, and leaves the stream past B.
C11_WhileLoopRule ==
    WhileLoopCalled =>
        \A j \in 1..Len(tokens.toks) :
            IsWhileForm(tokens.toks, j) =>
                LET e == ExpressionParse(MkStream(SubSeq(tokens.toks, 3, j - 1)))
                    b == BlockParse(MkStream(SubSeq(tokens.toks, j + 1, Len(tokens.toks))))
                IN  /\ result.kind = "ok"
                    /\ result.nodes = <<AstWhileLoop(e.nodes[1][2], b.nodes[1][2])>>
                    /\ tokens.index = Len(tokens.toks)

\* The Node leaves of a combinator joined by Sequence, left to right.
RECURSIVE NodeLeaves(_)
NodeLeaves(c) ==
    CASE c.tag = "Node" -> <<c.arg>>
      [] c.tag = "Sequence" -> NodeLeaves(c.kids[1]) \o NodeLeaves(c.kids[2])
      [] OTHER -> <<>>

NodeKinds(nodes) == [i \in 1..Len(nodes) |-> nodes[i][1]]

\* C14: a combinator of Terminal and Node leaves joined by Sequence returns,
\* when it succeeds, one node per Node leaf and none per Terminal, in leaf
\* order; the matcher of WhileLoop::parse returns [Expression, Block] when it
\* succeeds, and WhileLoop::parse never reaches an unreachable!() branch.
C14_SequenceNodeShape ==
    /\ (Done /\ comb \in WhileMatchers /\ result.kind = "ok") =>
           NodeKinds(result.nodes) = NodeLeaves(comb)
    /\ (Done /\ comb = WhileMatcher /\ result.kind = "ok") =>
           NodeKinds(result.nodes) = <<"Expression", "Block">>
    /\ WhileLoopCalled =>
           ~(result.kind = "panic" /\ result.err[1].message = "unreachable")

\* C14 witness: `while ( 1 ) { }` run through the five-leaf sequence with two
\* Node leaves gave the integer literal, then the block.
C14_Witness ==
    /\ Done
    /\ comb = NumWhileMatcher
    /\ result.kind = "ok"
    /\ result.nodes = <<AstNum(3), AstBlock(<<>>)>>
    /\ tokens.index = 6

----------------------------------------------------------------------------
(* Error positions *)

\* C12: an error raised for an offending token carries that token's position;
\* the position is None only for end-of-input errors.
C12_ErrorPosition ==
    (Done /\ result.kind = "err") =>
        LET e == result.err[1]
        IN  IF e.message \in {"Reached EOF!", "hit EOF while parsing"}
            THEN e.position = None
            ELSE e.position = Some(TokenPosition(tokens.toks[tokens.index]))

----------------------------------------------------------------------------
(* Token positions of the tokenizer *)

\* The 1-based line and column of the k-th character of the source text.
PositionAt(k) ==
    LET newlines == {i \in 1..(k - 1) : input[i] = "\n"}
        lastNewline == IF newlines = {} THEN 0
                       ELSE CHOOSE i \in newlines : \A j \in newlines : j <= i
    IN  <<1 + Cardinality(newlines), k - lastNewline>>

\* C13: a token pushed records the line and column of its first character,
\* and a helper that consumes n characters advances the column by n.
C13_TokenStartPosition ==
    [][/\ Len(lex_tokens') > Len(lex_tokens) =>
              lex_tokens'[Len(lex_tokens')].position = PositionAt(Consumed + 1)
       /\ (iterator' # iterator /\ lex_pc' = "loop") =>
              /\ line' = line
              /\ col' - col = Len(iterator) - Len(iterator')
      ]_vars

====
